---------------------------- MODULE Spec2Model ----------------------------
(***************************************************************************)
(* State-machine model of git_commit_helper (src/src/main.rs): the App     *)
(* struct, the event loop App::run, the per-mode key handlers and the      *)
(* calls they make to the git command line tool.                           *)
(*                                                                         *)
(* Text is a sequence of one-character strings.  A String of the program   *)
(* is the sequence of its UTF-8 bytes; a literal of the source is kept as  *)
(* one fragment (<<"Commit failed: ">>), so that format!("lit{}", x) is    *)
(* <<"lit">> \o x.  Option<T> is a sequence of length 0 (None) or 1.       *)
(* Indices are 0-based as in the source; s[i + 1] reads element i.         *)
(***************************************************************************)
EXTENDS Integers, Sequences, FiniteSets, TLC

VARIABLES
    pc,              \* position of App::run: start, draw, poll, expire, exited, panicked
    mode,            \* App.mode
    files,           \* App.files
    selected_file,   \* App.selected_file
    list_selected,   \* App.file_list_state.selected()
    commit_message,  \* App.commit_message (bytes)
    cursor_position, \* App.cursor_position
    selected_prefix, \* App.selected_prefix
    git_status,      \* App.git_status
    diff_content,    \* App.diff_content
    notification,    \* App.notification.0 (the message)
    notification_time, \* App.notification.1 (the Instant, in ticks; 0 when None)
    should_quit,     \* App.should_quit
    key,             \* the key event read by the current loop iteration, if any
    calls,           \* the git invocations made by the current loop iteration
    selection_before, \* selected_file and files.len() when that key was read
    now              \* Instant::now(), in ticks of 100 ms since the program started

vars == << pc, mode, files, selected_file, list_selected, commit_message,
           cursor_position, selected_prefix, git_status, diff_content,
           notification, notification_time, should_quit, key, calls,
           selection_before, now >>

-----------------------------------------------------------------------------
(* Bounds of the model.                                                    *)

\* Longest draft (in bytes) that a typed character may still extend.
MaxMsgLen == 2

-----------------------------------------------------------------------------
(* Text helpers: what the std library calls of the source compute.         *)

None == << >>
Some(x) == << x >>

Min(a, b) == IF a < b THEN a ELSE b

\* char::is_whitespace on the characters the model uses
IsWhitespace(c) == c \in {" ", "\n", "\t"}

RECURSIVE TrimStart(_)
TrimStart(s) ==
    IF s = << >> THEN << >>
    ELSE IF IsWhitespace(Head(s)) THEN TrimStart(Tail(s)) ELSE s

RECURSIVE TrimEnd(_)
TrimEnd(s) ==
    IF s = << >> THEN << >>
    ELSE IF IsWhitespace(s[Len(s)]) THEN TrimEnd(SubSeq(s, 1, Len(s) - 1)) ELSE s

\* mutant of Trim: the message is tested without trimming
TrimNothing(s) == s

\* str::trim
Trim(s) == TrimEnd(TrimStart(s))

\* UTF-8 encoding of a typed character: e_acute is U+00E9, two bytes.
Utf8(c) == IF c = "e_acute" THEN << "C3", "A9" >> ELSE << c >>

\* a UTF-8 continuation byte (10xxxxxx)
IsContinuation(b) == b \in {"A9"}

\* width in bytes of the character whose first byte is b
Utf8Width(b) == IF b = "C3" THEN 2 ELSE 1

\* str::is_char_boundary
IsCharBoundary(s, idx) ==
    \/ idx = 0
    \/ idx = Len(s)
    \/ idx < Len(s) /\ ~IsContinuation(s[idx + 1])

\* String::insert panics unless idx is a char boundary
InsertPanics(s, idx) == ~IsCharBoundary(s, idx)

\* String::insert(idx, c)
StringInsert(s, idx, c) ==
    SubSeq(s, 1, idx) \o Utf8(c) \o SubSeq(s, idx + 1, Len(s))

\* String::remove panics unless a character starts at idx
RemovePanics(s, idx) == idx >= Len(s) \/ ~IsCharBoundary(s, idx)

\* String::remove(idx)
StringRemove(s, idx) ==
    SubSeq(s, 1, idx) \o SubSeq(s, idx + Utf8Width(s[idx + 1]) + 1, Len(s))

\* str::split('\t')
RECURSIVE SplitTab(_)
SplitTab(s) ==
    IF \A i \in 1..Len(s) : s[i] /= "\t" THEN << s >>
    ELSE LET i == CHOOSE j \in 1..Len(s) :
                      s[j] = "\t" /\ \A k \in 1..(j - 1) : s[k] /= "\t"
         IN  << SubSeq(s, 1, i - 1) >> \o SplitTab(SubSeq(s, i + 1, Len(s)))

Digits == << "0", "1", "2", "3", "4", "5", "6", "7", "8", "9" >>

IsDigit(c) == \E d \in 1..10 : Digits[d] = c

DigitValue(c) == (CHOOSE d \in 1..10 : Digits[d] = c) - 1

I32Max == 2147483647

\* the digits s read as i32 parses them, with checked_mul and checked_add:
\* the value, or -1 once it exceeds i32::MAX
RECURSIVE CheckedPositive(_)
CheckedPositive(s) ==
    IF s = << >> THEN 0
    ELSE LET p == CheckedPositive(SubSeq(s, 1, Len(s) - 1))
             d == DigitValue(s[Len(s)])
         IN  IF p < 0 \/ p > (I32Max - d) \div 10 THEN 0 - 1 ELSE 10 * p + d

\* the digits s after a '-', with checked_mul and checked_sub: the value,
\* or 1 once it falls below i32::MIN
RECURSIVE CheckedNegative(_)
CheckedNegative(s) ==
    IF s = << >> THEN 0
    ELSE LET p == CheckedNegative(SubSeq(s, 1, Len(s) - 1))
             d == DigitValue(s[Len(s)])
         IN  IF p > 0 \/ 0 - p > (I32Max - (IF d = 0 THEN 0 ELSE d - 1)) \div 10
             THEN 1 ELSE 10 * p - d

\* str::parse::<i32>().unwrap_or(0): an optional sign, then digits only,
\* and the value within i32; anything else is an Err and gives 0.
ParseI32OrZero(s) ==
    LET signed == s /= << >> /\ Head(s) \in {"+", "-"}
        digits == IF signed THEN Tail(s) ELSE s
        ok     == digits /= << >> /\ \A i \in 1..Len(digits) : IsDigit(digits[i])
    IN  IF ~ok THEN 0
        ELSE IF signed /\ Head(s) = "-"
             THEN (IF CheckedNegative(digits) <= 0 THEN CheckedNegative(digits) ELSE 0)
             ELSE (IF CheckedPositive(digits) >= 0 THEN CheckedPositive(digits) ELSE 0)

\* str::lines: the pieces between "\n"; no piece after a final "\n"
RECURSIVE Lines(_)
Lines(s) ==
    IF s = << >> THEN << >>
    ELSE IF \A i \in 1..Len(s) : s[i] /= "\n" THEN << s >>
    ELSE LET i == CHOOSE j \in 1..Len(s) :
                      s[j] = "\n" /\ \A k \in 1..(j - 1) : s[k] /= "\n"
         IN  << SubSeq(s, 1, i - 1) >> \o Lines(SubSeq(s, i + 1, Len(s)))

-----------------------------------------------------------------------------
(* The git command line tool.  Command::output() either fails to run the  *)
(* tool (Err) or returns its exit status, stdout and stderr.               *)

Output(ran, success, stdout, stderr) ==
    [ran |-> ran, success |-> success, stdout |-> stdout, stderr |-> stderr]

\* Command::output() returned Err: the tool could not be run
SpawnErr == Output(FALSE, FALSE, << >>, << >>)

\* the tool ran and exited non-zero, with this text on stderr
ExitFail(stderr) == Output(TRUE, FALSE, << >>, stderr)

\* the tool ran and exited zero, with this text on stdout
ExitOk(stdout) == Output(TRUE, TRUE, stdout, << >>)

\* `if let Ok(output) = ... { if output.status.success() { ... } }`
Succeeded(out) == out.ran /\ out.success

\* one git invocation as the log keeps it
Call(args, out) == [args |-> args, out |-> out]

BranchArgs == << "branch", "--show-current" >>
CountArgs  == << "rev-list", "--left-right", "--count", "HEAD...@{u}" >>
StatusArgs == << "status", "--porcelain" >>

-----------------------------------------------------------------------------
(* Status parser: App::get_current_branch and App::get_git_status.        *)

Unknown == << "unknown" >>

get_current_branch(b) ==
    IF Succeeded(b) THEN Trim(b.stdout) ELSE Unknown

\* mutant of FileStatusOf: the worktree code M is matched first
FileStatusOf_WorktreeFirst(x, y) ==
    IF y = "M" THEN "Modified"
    ELSE IF x = "A" THEN "Added"
    ELSE IF x = "M" THEN "Staged"
    ELSE IF x = "D" THEN "Deleted"
    ELSE IF x = "R" THEN "Renamed"
    ELSE IF x = "?" /\ y = "?" THEN "Untracked"
    ELSE IF y = "D" THEN "Deleted"
    ELSE "Modified"

\* the match on (staged_status, unstaged_status): the first arm that fits
FileStatusOf(x, y) ==
    IF x = "A" THEN "Added"
    ELSE IF x = "M" THEN "Staged"
    ELSE IF x = "D" THEN "Deleted"
    ELSE IF x = "R" THEN "Renamed"
    ELSE IF x = "?" /\ y = "?" THEN "Untracked"
    ELSE IF y = "M" THEN "Modified"
    ELSE IF y = "D" THEN "Deleted"
    ELSE "Modified"

\* `staged_status != ' ' && staged_status != '?'`
StagedOf(x) == x /= " " /\ x /= "?"

\* one porcelain line of at least 3 bytes (ASCII, as git quotes other paths)
ParseLine(line) ==
    [path   |-> SubSeq(line, 4, Len(line)),
     status |-> FileStatusOf(line[1], line[2]),
     staged |-> StagedOf(line[1])]

RECURSIVE ParseLines(_)
ParseLines(ls) ==
    IF ls = << >> THEN << >>
    ELSE (IF Len(Head(ls)) >= 3 THEN << ParseLine(Head(ls)) >> ELSE << >>)
         \o ParseLines(Tail(ls))

\* the file-status block of get_git_status
ParseStatus(s) ==
    IF Succeeded(s) THEN ParseLines(Lines(s.stdout)) ELSE << >>

\* the ahead/behind block of get_git_status: <<ahead, behind>>
ParseCounts(c) ==
    LET parts == SplitTab(Trim(c.stdout))
    IN  IF Succeeded(c) /\ Len(parts) = 2
        THEN << ParseI32OrZero(parts[1]), ParseI32OrZero(parts[2]) >>
        ELSE << 0, 0 >>

get_git_status(b, c, s) ==
    [current_branch |-> get_current_branch(b),
     ahead          |-> ParseCounts(c)[1],
     behind         |-> ParseCounts(c)[2],
     files          |-> ParseStatus(s)]

-----------------------------------------------------------------------------
(* Inputs: the key codes the user presses and the answers git gives.       *)

Char(c) == << "Char", c >>
F(n)    == << "F", n >>
Esc       == << "Esc" >>
Enter     == << "Enter" >>
Backspace == << "Backspace" >>
Delete    == << "Delete" >>
Left      == << "Left" >>
Right     == << "Right" >>
Up        == << "Up" >>
Down      == << "Down" >>
Home      == << "Home" >>
End       == << "End" >>
Tab       == << "Tab" >>

\* characters typed into the commit message
TypedChars == {"a", " "}

\* keys no arm of the mode's match names
FileListOtherKeys == {Enter}
DiffViewOtherKeys == {Enter}
CommitOtherKeys   == {F(1)}
HelpOtherKeys     == {Enter}

\* text git writes to stderr when it fails
ErrText == << "e", "\n" >>

\* text git writes to stdout for a diff
DiffText == << "d", "\n" >>

\* porcelain lines: a staged path and an untracked one
StatusLines == { << "M", " ", " ", "a" >>, << "?", "?", " ", "b" >> }

RECURSIVE JoinLines(_)
JoinLines(ls) ==
    IF ls = << >> THEN << >> ELSE Head(ls) \o << "\n" >> \o JoinLines(Tail(ls))

\* the listings of `git status --porcelain`: every path at most once
Listings ==
    { JoinLines(ls) : ls \in
        { l \in UNION { [1..n -> StatusLines] : n \in 0..Cardinality(StatusLines) } :
            \A i, j \in 1..Len(l) : l[i] = l[j] => i = j } }

\* What the three queries of one resynchronization (branch, ahead/behind,
\* status) answer: git cannot be run; git fails (not a repository); a
\* detached HEAD without upstream; a branch with an upstream.
QueryAnswers ==
    { << SpawnErr, SpawnErr, SpawnErr >>,
      << ExitFail(ErrText), ExitFail(ErrText), ExitFail(ErrText) >> }
    \cup { << ExitOk(<< >>), ExitFail(ErrText), ExitOk(l) >> : l \in Listings }
    \cup { << ExitOk(<< "m", "\n" >>), ExitOk(<< "2", "\t", "0", "\n" >>), ExitOk(l) >> :
             l \in Listings }

\* what add, reset, commit and push answer
MutationAnswers == { SpawnErr, ExitFail(ErrText), ExitOk(<< >>) }

\* what diff answers
DiffAnswers == { SpawnErr, ExitFail(ErrText), ExitOk(DiffText) }

-----------------------------------------------------------------------------
(* App::default                                                            *)

commit_prefixes ==
    << << "f", "e", "a", "t", ":", " " >>,
       << "f", "i", "x", ":", " " >>,
       << "d", "o", "c", "s", ":", " " >>,
       << "s", "t", "y", "l", "e", ":", " " >>,
       << "r", "e", "f", "a", "c", "t", "o", "r", ":", " " >>,
       << "t", "e", "s", "t", ":", " " >>,
       << "c", "h", "o", "r", "e", ":", " " >> >>

Init ==
    /\ pc = "start"
    /\ mode = "FileList"
    /\ files = << >>
    /\ selected_file = 0
    /\ list_selected = Some(0)
    /\ commit_message = << >>
    /\ cursor_position = 0
    /\ selected_prefix = 0
    /\ git_status = [current_branch |-> << >>, ahead |-> 0, behind |-> 0,
                     files |-> << >>]
    /\ diff_content = << >>
    /\ notification = None
    /\ notification_time = 0
    /\ should_quit = FALSE
    /\ key = None
    /\ calls = << >>
    /\ selection_before = None
    /\ now = 0

-----------------------------------------------------------------------------
(* Operations of App that the handlers call.  Each is the state change of  *)
(* the method; the caller appends the method's git invocations to calls.   *)

\* mutant of refresh_git_status: the selected index is not clamped
refresh_git_status_unclamped(q) ==
    /\ git_status' = get_git_status(q[1], q[2], q[3])
    /\ files' = git_status'.files
    /\ selected_file' = selected_file
    /\ list_selected' = IF files' = << >> THEN None ELSE Some(selected_file')

\* App::refresh_git_status, the three queries answering q
refresh_git_status(q) ==
    /\ git_status' = get_git_status(q[1], q[2], q[3])
    /\ files' = git_status'.files
    /\ IF files' = << >>
       THEN selected_file' = 0 /\ list_selected' = None
       ELSE /\ selected_file' = Min(selected_file, Len(files') - 1)
            /\ list_selected' = Some(selected_file')

\* the invocations of refresh_git_status, in the order made
RefreshCalls(q) ==
    << Call(BranchArgs, q[1]), Call(CountArgs, q[2]), Call(StatusArgs, q[3]) >>

\* mutant of has_staged_files: any listed file counts
has_any_files == files /= << >>

\* App::has_staged_files
has_staged_files == \E i \in 1..Len(files) : files[i].staged

\* App::show_notification
show_notification(message) ==
    /\ notification' = Some(message)
    /\ notification_time' = now'

\* mutant of ToggleArgs: the file is staged whatever its flag
ToggleArgsAlwaysStage(file) == << "add", file.path >>

\* the arguments toggle_stage_file passes: stage_file or unstage_file
ToggleArgs(file) ==
    IF file.staged THEN << "reset", "HEAD", file.path >>
    ELSE << "add", file.path >>

\* the arguments show_diff passes
DiffArgs(file) ==
    IF file.staged THEN << "diff", "--staged", file.path >>
    ELSE << "diff", file.path >>

\* mutant of CommitArgs: the trimmed message is committed
CommitArgsTrimmed == << "commit", "-m", Trim(commit_message) >>

CommitArgs == << "commit", "-m", commit_message >>

PushArgs == << "push", "origin", git_status.current_branch >>

\* mutant of perform_commit: the draft is cleared whenever git ran
perform_commit_dropping_draft(out, q) ==
    IF ~out.ran
    THEN UNCHANGED << notification, notification_time, commit_message, cursor_position, git_status,
                      files, selected_file, list_selected >>
    ELSE /\ commit_message' = << >>
         /\ cursor_position' = 0
         /\ IF out.success
            THEN /\ show_notification(<< "Commit successful" >>)
                 /\ refresh_git_status(q)
            ELSE /\ show_notification(<< "Commit failed: " >> \o out.stderr)
                 /\ UNCHANGED << git_status, files, selected_file, list_selected >>

\* App::perform_commit, git answering out and, on success, the queries q
perform_commit(out, q) ==
    IF ~out.ran
    THEN UNCHANGED << notification, notification_time, commit_message, cursor_position, git_status,
                      files, selected_file, list_selected >>
    ELSE IF out.success
    THEN /\ show_notification(<< "Commit successful" >>)
         /\ commit_message' = << >>
         /\ cursor_position' = 0
         /\ refresh_git_status(q)
    ELSE /\ show_notification(<< "Commit failed: " >> \o out.stderr)
         /\ UNCHANGED << commit_message, cursor_position, git_status, files,
                         selected_file, list_selected >>

PerformCommitCalls(out, q) ==
    << Call(CommitArgs, out) >> \o (IF Succeeded(out) THEN RefreshCalls(q) ELSE << >>)

\* App::push_to_remote
push_to_remote(out, q) ==
    IF ~out.ran
    THEN UNCHANGED << notification, notification_time, git_status, files, selected_file, list_selected >>
    ELSE IF out.success
    THEN /\ show_notification(<< "Push successful" >>)
         /\ refresh_git_status(q)
    ELSE /\ show_notification(<< "Push failed: " >> \o out.stderr)
         /\ UNCHANGED << git_status, files, selected_file, list_selected >>

PushCalls(out, q) ==
    << Call(PushArgs, out) >> \o (IF Succeeded(out) THEN RefreshCalls(q) ELSE << >>)

\* App::toggle_stage_file
toggle_stage_file(out, q) ==
    IF files = << >>
    THEN UNCHANGED << git_status, files, selected_file, list_selected >>
    ELSE refresh_git_status(q)

ToggleCalls(out, q) ==
    IF files = << >> THEN << >>
    ELSE << Call(ToggleArgs(files[selected_file + 1]), out) >> \o RefreshCalls(q)

\* mutant of show_diff: the diff view opens whenever git ran
show_diff_on_any_exit(out) ==
    IF files /= << >> /\ out.ran
    THEN diff_content' = out.stdout /\ mode' = "DiffView"
    ELSE UNCHANGED << diff_content, mode >>

\* App::show_diff
show_diff(out) ==
    IF files /= << >> /\ Succeeded(out)
    THEN diff_content' = out.stdout /\ mode' = "DiffView"
    ELSE UNCHANGED << diff_content, mode >>

ShowDiffCalls(out) ==
    IF files = << >> THEN << >>
    ELSE << Call(DiffArgs(files[selected_file + 1]), out) >>

-----------------------------------------------------------------------------
(* App::run                                                                *)

\* the call of refresh_git_status before the loop, answered from qs
StartOn(qs) ==
    /\ pc = "start"
    /\ \E q \in qs :
          /\ refresh_git_status(q)
          /\ calls' = RefreshCalls(q)
    /\ pc' = "draw"
    /\ UNCHANGED << mode, commit_message, cursor_position, selected_prefix,
                    diff_content, notification, notification_time, should_quit, key,
                    selection_before >>

Start == StartOn(QueryAnswers)

\* mutant of Draw: the loop goes on whatever should_quit says
Draw_IgnoringQuit ==
    /\ pc = "draw"
    /\ pc' = "poll"
    /\ UNCHANGED << mode, files, selected_file, list_selected, commit_message,
                    cursor_position, selected_prefix, git_status, diff_content,
                    notification, notification_time, should_quit, key, calls,
                    selection_before >>

\* terminal.draw, then `if self.should_quit { break }`
Draw ==
    /\ pc = "draw"
    /\ pc' = IF should_quit THEN "exited" ELSE "poll"
    /\ UNCHANGED << mode, files, selected_file, list_selected, commit_message,
                    cursor_position, selected_prefix, git_status, diff_content,
                    notification, notification_time, should_quit, key, calls,
                    selection_before >>

\* event::poll timed out, or the event was no key press
NoKey ==
    /\ pc = "poll"
    /\ pc' = "expire"
    /\ key' = None
    /\ calls' = << >>
    /\ selection_before' = None
    /\ UNCHANGED << mode, files, selected_file, list_selected, commit_message,
                    cursor_position, selected_prefix, git_status, diff_content,
                    notification, notification_time, should_quit >>

\* "Clear expired notifications": whether more than 3 s have elapsed since
\* the notification was set is the clock's answer.
Expire ==
    /\ pc = "expire"
    /\ pc' = "draw"
    /\ \E elapsed_over_3s \in BOOLEAN :
          notification' = IF notification /= None /\ elapsed_over_3s
                          THEN None ELSE notification
    /\ notification_time' = IF notification' = None THEN 0 ELSE notification_time
    /\ key' = None
    /\ calls' = << >>
    /\ selection_before' = None
    /\ UNCHANGED << mode, files, selected_file, list_selected, commit_message,
                    cursor_position, selected_prefix, git_status, diff_content,
                    should_quit >>

\* App::handle_input read key k in mode m; log are the git invocations made
Handle(m, k, log) ==
    /\ pc = "poll"
    /\ mode = m
    /\ pc' = "expire"
    /\ key' = Some(k)
    /\ calls' = log
    /\ selection_before' = Some([selected_file |-> selected_file, len |-> Len(files)])

\* a panic inside a handler aborts the program
Panic(m, k) ==
    /\ pc = "poll"
    /\ mode = m
    /\ pc' = "panicked"
    /\ key' = Some(k)
    /\ UNCHANGED << mode, files, selected_file, list_selected, commit_message,
                    cursor_position, selected_prefix, git_status, diff_content,
                    notification, notification_time, should_quit, calls, selection_before >>

-----------------------------------------------------------------------------
(* App::handle_file_list_input, one action per arm of the match            *)

FileListQuit ==
    /\ Handle("FileList", Char("q"), << >>)
    /\ should_quit' = TRUE
    /\ UNCHANGED << mode, files, selected_file, list_selected, commit_message,
                    cursor_position, selected_prefix, git_status, diff_content,
                    notification, notification_time >>

FileListHelp ==
    /\ \E k \in {Char("h"), F(1)} : Handle("FileList", k, << >>)
    /\ mode' = "Help"
    /\ UNCHANGED << files, selected_file, list_selected, commit_message,
                    cursor_position, selected_prefix, git_status, diff_content,
                    notification, notification_time, should_quit >>

FileListRefresh ==
    /\ \E q \in QueryAnswers :
          /\ Handle("FileList", Char("r"), RefreshCalls(q))
          /\ refresh_git_status(q)
    /\ UNCHANGED << mode, commit_message, cursor_position, selected_prefix,
                    diff_content, notification, notification_time, should_quit >>

FileListDown ==
    /\ \E k \in {Down, Char("j")} : Handle("FileList", k, << >>)
    /\ IF files /= << >>
       THEN /\ selected_file' = (selected_file + 1) % Len(files)
            /\ list_selected' = Some(selected_file')
       ELSE UNCHANGED << selected_file, list_selected >>
    /\ UNCHANGED << mode, files, commit_message, cursor_position, selected_prefix,
                    git_status, diff_content, notification, notification_time, should_quit >>

\* mutant of FileListUp: the index stops at 0 instead of wrapping
FileListUp_Saturating ==
    /\ \E k \in {Up, Char("k")} : Handle("FileList", k, << >>)
    /\ IF files /= << >>
       THEN /\ selected_file' = IF selected_file = 0 THEN 0
                                ELSE selected_file - 1
            /\ list_selected' = Some(selected_file')
       ELSE UNCHANGED << selected_file, list_selected >>
    /\ UNCHANGED << mode, files, commit_message, cursor_position, selected_prefix,
                    git_status, diff_content, notification, notification_time, should_quit >>

FileListUp ==
    /\ \E k \in {Up, Char("k")} : Handle("FileList", k, << >>)
    /\ IF files /= << >>
       THEN /\ selected_file' = IF selected_file = 0 THEN Len(files) - 1
                                ELSE selected_file - 1
            /\ list_selected' = Some(selected_file')
       ELSE UNCHANGED << selected_file, list_selected >>
    /\ UNCHANGED << mode, files, commit_message, cursor_position, selected_prefix,
                    git_status, diff_content, notification, notification_time, should_quit >>

FileListToggle ==
    /\ \E out \in MutationAnswers, q \in QueryAnswers :
          /\ Handle("FileList", Char(" "), ToggleCalls(out, q))
          /\ toggle_stage_file(out, q)
    /\ UNCHANGED << mode, commit_message, cursor_position, selected_prefix,
                    diff_content, notification, notification_time, should_quit >>

FileListDiff ==
    /\ \E out \in DiffAnswers :
          /\ Handle("FileList", Char("d"), ShowDiffCalls(out))
          /\ show_diff(out)
    /\ UNCHANGED << files, selected_file, list_selected, commit_message,
                    cursor_position, selected_prefix, git_status, notification, notification_time,
                    should_quit >>

\* mutant of FileListCommit: the editor opens without the staged-files test
FileListCommit_Unchecked ==
    /\ Handle("FileList", Char("c"), << >>)
    /\ mode' = "CommitMessage"
    /\ UNCHANGED << files, selected_file, list_selected, commit_message,
                    cursor_position, selected_prefix, git_status, diff_content,
                    notification, notification_time, should_quit >>

FileListCommit ==
    /\ Handle("FileList", Char("c"), << >>)
    /\ IF has_staged_files
       THEN mode' = "CommitMessage" /\ UNCHANGED << notification, notification_time >>
       ELSE show_notification(<< "No staged files to commit" >>) /\ UNCHANGED mode
    /\ UNCHANGED << files, selected_file, list_selected, commit_message,
                    cursor_position, selected_prefix, git_status, diff_content,
                    should_quit >>

FileListPush ==
    /\ \E out \in MutationAnswers, q \in QueryAnswers :
          /\ Handle("FileList", Char("p"), PushCalls(out, q))
          /\ push_to_remote(out, q)
    /\ UNCHANGED << mode, commit_message, cursor_position, selected_prefix,
                    diff_content, should_quit >>

FileListOther ==
    /\ \E k \in FileListOtherKeys : Handle("FileList", k, << >>)
    /\ UNCHANGED << mode, files, selected_file, list_selected, commit_message,
                    cursor_position, selected_prefix, git_status, diff_content,
                    notification, notification_time, should_quit >>

-----------------------------------------------------------------------------
(* App::handle_diff_view_input and App::handle_help_input                  *)

\* mutant of DiffViewBack: the wrong mode is assigned
DiffViewBack_ToHelp ==
    /\ \E k \in {Esc, Char("q")} : Handle("DiffView", k, << >>)
    /\ mode' = "Help"
    /\ UNCHANGED << files, selected_file, list_selected, commit_message,
                    cursor_position, selected_prefix, git_status, diff_content,
                    notification, notification_time, should_quit >>

DiffViewBack ==
    /\ \E k \in {Esc, Char("q")} : Handle("DiffView", k, << >>)
    /\ mode' = "FileList"
    /\ UNCHANGED << files, selected_file, list_selected, commit_message,
                    cursor_position, selected_prefix, git_status, diff_content,
                    notification, notification_time, should_quit >>

DiffViewOther ==
    /\ \E k \in DiffViewOtherKeys : Handle("DiffView", k, << >>)
    /\ UNCHANGED << mode, files, selected_file, list_selected, commit_message,
                    cursor_position, selected_prefix, git_status, diff_content,
                    notification, notification_time, should_quit >>

HelpBack ==
    /\ \E k \in {Esc, Char("q"), Char("h")} : Handle("Help", k, << >>)
    /\ mode' = "FileList"
    /\ UNCHANGED << files, selected_file, list_selected, commit_message,
                    cursor_position, selected_prefix, git_status, diff_content,
                    notification, notification_time, should_quit >>

HelpOther ==
    /\ \E k \in HelpOtherKeys : Handle("Help", k, << >>)
    /\ UNCHANGED << mode, files, selected_file, list_selected, commit_message,
                    cursor_position, selected_prefix, git_status, diff_content,
                    notification, notification_time, should_quit >>

-----------------------------------------------------------------------------
(* App::handle_commit_message_input, one action per arm of the match       *)

CommitEsc ==
    /\ Handle("CommitMessage", Esc, << >>)
    /\ mode' = "FileList"
    /\ UNCHANGED << files, selected_file, list_selected, commit_message,
                    cursor_position, selected_prefix, git_status, diff_content,
                    notification, notification_time, should_quit >>

\* mutant of CommitEnter: the mode is left only when the commit succeeded
CommitEnter_StaysOnFailure ==
    /\ IF Trim(commit_message) /= << >>
       THEN \E out \in MutationAnswers, q \in QueryAnswers :
               /\ Handle("CommitMessage", Enter, PerformCommitCalls(out, q))
               /\ perform_commit(out, q)
               /\ mode' = IF Succeeded(out) THEN "FileList" ELSE mode
       ELSE /\ Handle("CommitMessage", Enter, << >>)
            /\ show_notification(<< "Commit message cannot be empty" >>)
            /\ UNCHANGED << mode, files, selected_file, list_selected,
                            commit_message, cursor_position, git_status >>
    /\ UNCHANGED << selected_prefix, diff_content, should_quit >>

\* KeyCode::Enter, git answering from outs and qs
CommitEnterOn(outs, qs) ==
    /\ IF Trim(commit_message) /= << >>
       THEN \E out \in outs, q \in qs :
               /\ Handle("CommitMessage", Enter, PerformCommitCalls(out, q))
               /\ perform_commit(out, q)
               /\ mode' = "FileList"
       ELSE /\ Handle("CommitMessage", Enter, << >>)
            /\ show_notification(<< "Commit message cannot be empty" >>)
            /\ UNCHANGED << mode, files, selected_file, list_selected,
                            commit_message, cursor_position, git_status >>
    /\ UNCHANGED << selected_prefix, diff_content, should_quit >>

CommitEnter == CommitEnterOn(MutationAnswers, QueryAnswers)

\* KeyCode::Char(c), for the characters cs
CommitChar(cs) ==
    \E c \in cs :
       /\ Len(commit_message) < MaxMsgLen
       /\ IF InsertPanics(commit_message, cursor_position)
          THEN Panic("CommitMessage", Char(c))
          ELSE /\ Handle("CommitMessage", Char(c), << >>)
               /\ commit_message' = StringInsert(commit_message, cursor_position, c)
               /\ cursor_position' = cursor_position + 1
               /\ UNCHANGED << mode, files, selected_file, list_selected,
                               selected_prefix, git_status, diff_content,
                               notification, notification_time, should_quit >>

CommitBackspace ==
    IF cursor_position > 0 /\ RemovePanics(commit_message, cursor_position - 1)
    THEN Panic("CommitMessage", Backspace)
    ELSE /\ Handle("CommitMessage", Backspace, << >>)
         /\ IF cursor_position > 0
            THEN /\ commit_message' = StringRemove(commit_message, cursor_position - 1)
                 /\ cursor_position' = cursor_position - 1
            ELSE UNCHANGED << commit_message, cursor_position >>
         /\ UNCHANGED << mode, files, selected_file, list_selected,
                         selected_prefix, git_status, diff_content, notification, notification_time,
                         should_quit >>

CommitDelete ==
    IF cursor_position < Len(commit_message)
       /\ RemovePanics(commit_message, cursor_position)
    THEN Panic("CommitMessage", Delete)
    ELSE /\ Handle("CommitMessage", Delete, << >>)
         /\ IF cursor_position < Len(commit_message)
            THEN commit_message' = StringRemove(commit_message, cursor_position)
            ELSE UNCHANGED commit_message
         /\ UNCHANGED << mode, files, selected_file, list_selected,
                         cursor_position, selected_prefix, git_status,
                         diff_content, notification, notification_time, should_quit >>

CommitLeft ==
    /\ Handle("CommitMessage", Left, << >>)
    /\ cursor_position' = IF cursor_position > 0 THEN cursor_position - 1
                          ELSE cursor_position
    /\ UNCHANGED << mode, files, selected_file, list_selected, commit_message,
                    selected_prefix, git_status, diff_content, notification, notification_time,
                    should_quit >>

\* mutant of CommitRight: the cursor moves right without the length test
CommitRight_Unbounded ==
    /\ Handle("CommitMessage", Right, << >>)
    /\ cursor_position' = cursor_position + 1
    /\ UNCHANGED << mode, files, selected_file, list_selected, commit_message,
                    selected_prefix, git_status, diff_content, notification,
                    notification_time, should_quit >>

CommitRight ==
    /\ Handle("CommitMessage", Right, << >>)
    /\ cursor_position' = IF cursor_position < Len(commit_message)
                          THEN cursor_position + 1 ELSE cursor_position
    /\ UNCHANGED << mode, files, selected_file, list_selected, commit_message,
                    selected_prefix, git_status, diff_content, notification, notification_time,
                    should_quit >>

CommitHome ==
    /\ Handle("CommitMessage", Home, << >>)
    /\ cursor_position' = 0
    /\ UNCHANGED << mode, files, selected_file, list_selected, commit_message,
                    selected_prefix, git_status, diff_content, notification, notification_time,
                    should_quit >>

CommitEnd ==
    /\ Handle("CommitMessage", End, << >>)
    /\ cursor_position' = Len(commit_message)
    /\ UNCHANGED << mode, files, selected_file, list_selected, commit_message,
                    selected_prefix, git_status, diff_content, notification, notification_time,
                    should_quit >>

\* mutant of CommitTab: the prefix replaces the draft whatever it holds
CommitTab_OnAnyDraft ==
    /\ Handle("CommitMessage", Tab, << >>)
    /\ selected_prefix' = (selected_prefix + 1) % Len(commit_prefixes)
    /\ commit_message' = commit_prefixes[selected_prefix' + 1]
    /\ cursor_position' = Len(commit_message')
    /\ UNCHANGED << mode, files, selected_file, list_selected, git_status,
                    diff_content, notification, notification_time, should_quit >>

CommitTab ==
    /\ Handle("CommitMessage", Tab, << >>)
    /\ IF commit_message = << >>
       THEN /\ selected_prefix' = (selected_prefix + 1) % Len(commit_prefixes)
            /\ commit_message' = commit_prefixes[selected_prefix' + 1]
            /\ cursor_position' = Len(commit_message')
       ELSE UNCHANGED << selected_prefix, commit_message, cursor_position >>
    /\ UNCHANGED << mode, files, selected_file, list_selected, git_status,
                    diff_content, notification, notification_time, should_quit >>

CommitOther ==
    /\ \E k \in CommitOtherKeys : Handle("CommitMessage", k, << >>)
    /\ UNCHANGED << mode, files, selected_file, list_selected, commit_message,
                    cursor_position, selected_prefix, git_status, diff_content,
                    notification, notification_time, should_quit >>

-----------------------------------------------------------------------------
(* The program: every key handler but the prefix cycle, whose catalog      *)
(* entries are longer than the drafts this specification explores.  The    *)
(* clock is abstracted here: it stands still and Expire asks an oracle     *)
(* whether the 3 s have passed.                                            *)

Next ==
    \/ UNCHANGED now /\ Start
    \/ UNCHANGED now /\ Draw
    \/ UNCHANGED now /\ NoKey
    \/ UNCHANGED now /\ Expire
    \/ UNCHANGED now /\ FileListQuit
    \/ UNCHANGED now /\ FileListHelp
    \/ UNCHANGED now /\ FileListRefresh
    \/ UNCHANGED now /\ FileListDown
    \/ UNCHANGED now /\ FileListUp
    \/ UNCHANGED now /\ FileListToggle
    \/ UNCHANGED now /\ FileListDiff
    \/ UNCHANGED now /\ FileListCommit
    \/ UNCHANGED now /\ FileListPush
    \/ UNCHANGED now /\ FileListOther
    \/ UNCHANGED now /\ DiffViewBack
    \/ UNCHANGED now /\ DiffViewOther
    \/ UNCHANGED now /\ HelpBack
    \/ UNCHANGED now /\ HelpOther
    \/ UNCHANGED now /\ CommitEsc
    \/ UNCHANGED now /\ CommitEnter
    \/ UNCHANGED now /\ CommitChar(TypedChars)
    \/ UNCHANGED now /\ CommitBackspace
    \/ UNCHANGED now /\ CommitDelete
    \/ UNCHANGED now /\ CommitLeft
    \/ UNCHANGED now /\ CommitRight
    \/ UNCHANGED now /\ CommitHome
    \/ UNCHANGED now /\ CommitEnd
    \/ UNCHANGED now /\ CommitOther

Spec == Init /\ [][Next]_vars

-----------------------------------------------------------------------------
(* The program as under Spec, the character typed into the commit message  *)
(* being the one that is the quit key of the file list.                    *)

QuitChars == {"q"}

NextQuit ==
    \/ UNCHANGED now /\ Start
    \/ UNCHANGED now /\ Draw
    \/ UNCHANGED now /\ NoKey
    \/ UNCHANGED now /\ Expire
    \/ UNCHANGED now /\ FileListQuit
    \/ UNCHANGED now /\ FileListHelp
    \/ UNCHANGED now /\ FileListRefresh
    \/ UNCHANGED now /\ FileListDown
    \/ UNCHANGED now /\ FileListUp
    \/ UNCHANGED now /\ FileListToggle
    \/ UNCHANGED now /\ FileListDiff
    \/ UNCHANGED now /\ FileListCommit
    \/ UNCHANGED now /\ FileListPush
    \/ UNCHANGED now /\ FileListOther
    \/ UNCHANGED now /\ DiffViewBack
    \/ UNCHANGED now /\ DiffViewOther
    \/ UNCHANGED now /\ HelpBack
    \/ UNCHANGED now /\ HelpOther
    \/ UNCHANGED now /\ CommitEsc
    \/ UNCHANGED now /\ CommitEnter
    \/ UNCHANGED now /\ CommitChar(QuitChars)
    \/ UNCHANGED now /\ CommitBackspace
    \/ UNCHANGED now /\ CommitDelete
    \/ UNCHANGED now /\ CommitLeft
    \/ UNCHANGED now /\ CommitRight
    \/ UNCHANGED now /\ CommitHome
    \/ UNCHANGED now /\ CommitEnd
    \/ UNCHANGED now /\ CommitOther

SpecQuit == Init /\ [][NextQuit]_vars

-----------------------------------------------------------------------------
(* The commit message editor: entering, editing, submitting and leaving    *)
(* the CommitMessage mode, with the prefix cycle and a character whose     *)
(* UTF-8 encoding is two bytes.                                            *)

ComposeChars == {"a", "e_acute"}

\* the repository of this specification: on a branch with an upstream, one
\* file staged, or nothing left to commit
ComposeAnswers ==
    { << ExitOk(<< "m", "\n" >>), ExitOk(<< "2", "\t", "0", "\n" >>), ExitOk(l) >> :
        l \in { << >>, << "M", " ", " ", "a", "\n" >> } }

NextCompose ==
    \/ UNCHANGED now /\ StartOn(ComposeAnswers)
    \/ UNCHANGED now /\ Draw
    \/ UNCHANGED now /\ NoKey
    \/ UNCHANGED now /\ Expire
    \/ UNCHANGED now /\ FileListCommit
    \/ UNCHANGED now /\ CommitEsc
    \/ UNCHANGED now /\ CommitEnterOn(MutationAnswers, ComposeAnswers)
    \/ UNCHANGED now /\ CommitChar(ComposeChars)
    \/ UNCHANGED now /\ CommitBackspace
    \/ UNCHANGED now /\ CommitDelete
    \/ UNCHANGED now /\ CommitLeft
    \/ UNCHANGED now /\ CommitRight
    \/ UNCHANGED now /\ CommitHome
    \/ UNCHANGED now /\ CommitEnd
    \/ UNCHANGED now /\ CommitTab

SpecCompose == Init /\ [][NextCompose]_vars

-----------------------------------------------------------------------------
(* The status parser on its own: the synchronization before the loop, for  *)
(* the texts git may answer to each of the three queries.                  *)

\* Most lines of one porcelain listing.
MaxLines == 2

\* index and worktree codes: those the match names, and unmerged
Codes == {"A", "M", "D", "R", "?", " ", "U"}

\* porcelain lines for the path "a" under every code pair, a line without
\* a path, and lines too short to hold one
PorcelainLines ==
    { << x, y, " ", "a" >> : x, y \in Codes }
    \cup { << "A", " ", " " >>, << "M", " " >>, << "M" >>, << >> }

\* what `git status --porcelain` answers; the last text lacks the final "\n"
StatusAnswers ==
    { SpawnErr, ExitFail(ErrText), ExitOk(<< "M", " ", " ", "a" >>) }
    \cup { ExitOk(JoinLines(ls)) :
             ls \in UNION { [1..n -> PorcelainLines] : n \in 0..MaxLines } }

\* one side of the line `git rev-list --left-right --count` prints
CountFields ==
    { << >>, << "0" >>, << "2" >>, << "1", "2" >>, << "-", "1" >>, << "+", "3" >>,
      << "x" >>, << "2", " " >>,
      << "2", "1", "4", "7", "4", "8", "3", "6", "4", "7" >>,
      << "2", "1", "4", "7", "4", "8", "3", "6", "4", "8" >> }

\* what the ahead/behind query answers: two fields, one, or three
CountAnswers ==
    { SpawnErr, ExitFail(ErrText), ExitOk(<< "1", "\t", "2", "\t", "3", "\n" >>) }
    \cup { ExitOk(f \o << "\t" >> \o g \o << "\n" >>) : f, g \in CountFields }
    \cup { ExitOk(f \o << "\n" >>) : f \in CountFields }

\* what `git branch --show-current` answers; empty on a detached HEAD
BranchAnswers ==
    { SpawnErr, ExitFail(ErrText), ExitOk(<< >>), ExitOk(<< "\n" >>),
      ExitOk(<< " ", "\n" >>), ExitOk(<< "m", "\n" >>),
      ExitOk(<< " ", "m", " ", "\n" >>) }

\* the three queries of one resynchronization, one of them varied at a time
SyncAnswers ==
    { << b, ExitOk(<< "2", "\t", "0", "\n" >>), ExitOk(<< >>) >> : b \in BranchAnswers }
    \cup { << ExitOk(<< "m", "\n" >>), c, ExitOk(<< >>) >> : c \in CountAnswers }
    \cup { << ExitOk(<< "m", "\n" >>), ExitOk(<< "2", "\t", "0", "\n" >>), s >> :
             s \in StatusAnswers }

NextSync ==
    \/ UNCHANGED now /\ StartOn(SyncAnswers)
    \/ UNCHANGED now /\ Draw
    \/ UNCHANGED now /\ NoKey
    \/ UNCHANGED now /\ Expire

SpecSync == Init /\ [][NextSync]_vars

-----------------------------------------------------------------------------
(* The event loop with its clock: time passes while event::poll waits and  *)
(* while a handler waits for git, and the expiry check reads the clock.    *)
(* One tick is 100 ms.                                                     *)

\* Duration::from_millis(100) of event::poll
PollTimeout == 1

\* Duration::from_secs(3) of the expiry check
ExpiryTicks == 30

\* The clock is followed up to this tick.
Horizon == 36

\* Longest time the git invocations of one handler take together.
GitBlock == 3

\* the step takes one of the durations D
Elapse(D) == \E d \in D : now + d <= Horizon /\ now' = now + d

\* a key arrives before event::poll times out
KeyWait == 0..PollTimeout

\* a key arrives at once and git answers at once or blocks the handler
KeyAndGit == {0, GitBlock}

\* "Clear expired notifications" with time.elapsed() read from the clock
ExpireAt ==
    /\ UNCHANGED now
    /\ Expire
    /\ notification /= None =>
          ( notification' = None <=> now - notification_time > ExpiryTicks )

NextClock ==
    \/ UNCHANGED now /\ Start
    \/ UNCHANGED now /\ Draw
    \/ Elapse({PollTimeout}) /\ NoKey
    \/ ExpireAt
    \/ Elapse(KeyWait) /\ FileListCommit
    \/ Elapse(KeyAndGit) /\ FileListRefresh

SpecClock == Init /\ [][NextClock]_vars

-----------------------------------------------------------------------------
(* Vocabulary of the properties.                                           *)

\* the loop iteration has just handled key k (the expiry check not yet run)
Handled(k) == pc = "expire" /\ key = Some(k)

\* the step is App::handle_input reading key k in mode m
Handles(m, k) == pc = "poll" /\ mode = m /\ pc' = "expire" /\ key' = Some(k)

Secondary == {"DiffView", "CommitMessage", "Help"}

\* every character of s is whitespace
IsBlank(s) == \A i \in 1..Len(s) : IsWhitespace(s[i])

\* leading and trailing whitespace removed
Stripped(s) ==
    LET keep == { i \in 1..Len(s) : ~IsWhitespace(s[i]) }
    IN  IF keep = {} THEN << >>
        ELSE SubSeq(s, CHOOSE i \in keep : \A j \in keep : i <= j,
                       CHOOSE i \in keep : \A j \in keep : i >= j)

IsCommit(c) == c.args[1] = "commit"
IsPush(c)   == c.args[1] = "push"
IsMutation(c) == c.args[1] \in {"add", "reset", "commit", "push"}

\* log[i + 1 .. i + 3] are the three queries of one resynchronization
ResyncAt(log, i) ==
    /\ Len(log) >= i + 3
    /\ log[i + 1].args = BranchArgs
    /\ log[i + 2].args = CountArgs
    /\ log[i + 3].args = StatusArgs

-----------------------------------------------------------------------------
(* C1 *)

\* C1: after the initial refresh and after every key event, selected_file is
\* a valid index when files is non-empty, and the selection is cleared
\* (index 0, list selection None) when files is empty.
C1_SelectionValid ==
    pc /= "start" =>
        IF files /= << >>
        THEN 0 <= selected_file /\ selected_file < Len(files)
        ELSE selected_file = 0 /\ list_selected = None

\* a refresh returned one file where two were listed and the last selected
C1_Witness ==
    /\ Handled(Char("r"))
    /\ selection_before = Some([selected_file |-> 1, len |-> 2])
    /\ Len(files) = 1
    /\ selected_file = 0

-----------------------------------------------------------------------------
(* C2 *)

\* C2: every mutating git call (add, reset, commit, push) is followed, in
\* the same loop iteration and whatever its outcome, by a resynchronization
\* whose status answer is the file list.
C2_MutationAlwaysResyncs ==
    \A i \in 1..Len(calls) :
        IsMutation(calls[i]) =>
            /\ ResyncAt(calls, i)
            /\ files = ParseStatus(calls[i + 3].out)

-----------------------------------------------------------------------------
(* C3 *)

\* C3: the mode starts as FileList, and every mode change is from FileList
\* to a secondary mode or from a secondary mode back to FileList.
C3_ModeChanges ==
    /\ mode = "FileList"
    /\ [][ mode' /= mode =>
              \/ mode = "FileList" /\ mode' \in Secondary
              \/ mode \in Secondary /\ mode' = "FileList" ]_vars

\* Esc has just closed the diff view
C3_Witness ==
    /\ Handled(Esc)
    /\ mode = "FileList"
    /\ diff_content /= << >>
    /\ commit_message = << >>

-----------------------------------------------------------------------------
(* C4 *)

\* C4: every commit attempt that does not succeed leaves the notification
\* "Commit failed: " + trimmed stderr, every push attempt that does not
\* succeed "Push failed: " + trimmed stderr, also when git cannot be run.
C4_FailureNotified ==
    \A i \in 1..Len(calls) :
        /\ (IsCommit(calls[i]) /\ ~Succeeded(calls[i].out)) =>
              notification = Some(<< "Commit failed: " >> \o Stripped(calls[i].out.stderr))
        /\ (IsPush(calls[i]) /\ ~Succeeded(calls[i].out)) =>
              notification = Some(<< "Push failed: " >> \o Stripped(calls[i].out.stderr))

-----------------------------------------------------------------------------
(* C5 *)

\* C5: a submit whose commit fails leaves the message, the cursor, the
\* file list and the selected index as they were, and a staged file
\* remains, so compose mode can be entered again with the same draft.
C5_FailedCommitKeepsDraft ==
    [][ ( /\ Handles("CommitMessage", Enter)
          /\ calls' /= << >>
          /\ IsCommit(calls'[1])
          /\ ~Succeeded(calls'[1].out) )
        => /\ commit_message' = commit_message
           /\ cursor_position' = cursor_position
           /\ files' = files
           /\ selected_file' = selected_file
           /\ \E i \in 1..Len(files') : files'[i].staged ]_vars

\* git could not be run for the commit of a draft with the cursor at its end
C5_Witness ==
    /\ Handled(Enter)
    /\ calls = << Call(<< "commit", "-m", commit_message >>, SpawnErr) >>
    /\ commit_message = << "a", "a" >>
    /\ cursor_position = 2
    /\ selected_file = 1

-----------------------------------------------------------------------------
(* C6 *)

\* C6 as stated: after a submit whose commit fails the mode is the mode in
\* which submit was pressed (CommitMessage).
C6_FailedCommitKeepsMode ==
    ( /\ Handled(Enter)
      /\ calls /= << >>
      /\ IsCommit(calls[1])
      /\ ~Succeeded(calls[1].out) )
    => mode = "CommitMessage"

\* C6 amended: after a submit whose commit fails the mode is FileList.
C6_FailedCommitToFileList ==
    ( /\ Handled(Enter)
      /\ calls /= << >>
      /\ IsCommit(calls[1])
      /\ ~Succeeded(calls[1].out) )
    => mode = "FileList"

\* git exited non-zero for the commit
C6_Witness ==
    /\ Handled(Enter)
    /\ calls = << Call(<< "commit", "-m", commit_message >>, ExitFail(ErrText)) >>
    /\ mode = "FileList"

-----------------------------------------------------------------------------
(* C7 *)

\* C7: a submit with a message that is not blank makes exactly one commit
\* call, with the message as typed, and ends in FileList whatever the
\* outcome; on success the notification is "Commit successful", the draft
\* is empty with cursor 0, and the file list is that of a resynchronization
\* made after the commit.
C7_Submit ==
    [][ ( Handles("CommitMessage", Enter) /\ ~IsBlank(commit_message) )
        => /\ Cardinality({ i \in 1..Len(calls') : IsCommit(calls'[i]) }) = 1
           /\ calls'[1].args = << "commit", "-m", commit_message >>
           /\ mode' = "FileList"
           /\ Succeeded(calls'[1].out) =>
                 /\ notification' = Some(<< "Commit successful" >>)
                 /\ commit_message' = << >>
                 /\ cursor_position' = 0
                 /\ ResyncAt(calls', 1)
                 /\ Len(calls') = 4
                 /\ files' = ParseStatus(calls'[4].out) ]_vars

\* the commit of " a" succeeded and the status listed one file afterwards
C7_Witness ==
    /\ Handled(Enter)
    /\ Len(calls) = 4
    /\ calls[1] = Call(<< "commit", "-m", << " ", "a" >> >>, ExitOk(<< >>))
    /\ notification = Some(<< "Commit successful" >>)
    /\ commit_message = << >>
    /\ Len(files) = 1
    /\ mode = "FileList"

-----------------------------------------------------------------------------
(* C8 *)

\* C8: a submit while the message is empty or all whitespace makes no git
\* call, sets "Commit message cannot be empty" and leaves the mode
\* CommitMessage and the draft as they were.
C8_BlankSubmit ==
    [][ ( Handles("CommitMessage", Enter) /\ IsBlank(commit_message) )
        => /\ calls' = << >>
           /\ notification' = Some(<< "Commit message cannot be empty" >>)
           /\ mode' = "CommitMessage"
           /\ commit_message' = commit_message
           /\ cursor_position' = cursor_position ]_vars

\* a draft of two spaces was submitted
C8_Witness ==
    /\ Handled(Enter)
    /\ mode = "CommitMessage"
    /\ commit_message = << " ", " " >>
    /\ notification = Some(<< "Commit message cannot be empty" >>)
    /\ calls = << >>

-----------------------------------------------------------------------------
(* C9 *)

\* C9: 'c' in FileList with no staged entry leaves the mode and sets "No
\* staged files to commit"; with a staged entry it changes the mode to
\* CommitMessage and leaves the notification alone.
C9_RequestCommit ==
    [][ Handles("FileList", Char("c"))
        => IF \E i \in 1..Len(files) : files[i].staged
           THEN mode' = "CommitMessage" /\ notification' = notification
           ELSE mode' = "FileList"
                /\ notification' = Some(<< "No staged files to commit" >>) ]_vars

\* 'c' was refused although a file (an untracked one) is listed
C9_Witness ==
    /\ Handled(Char("c"))
    /\ mode = "FileList"
    /\ Len(files) = 1
    /\ ~files[1].staged
    /\ notification = Some(<< "No staged files to commit" >>)

-----------------------------------------------------------------------------
(* C10 *)

\* C10: Esc in CommitMessage discards the draft: afterwards the message is
\* empty and the cursor is 0.
C10_CancelDiscardsDraft ==
    [][ Handles("CommitMessage", Esc)
        => commit_message' = << >> /\ cursor_position' = 0 ]_vars

-----------------------------------------------------------------------------
(* C11 *)

\* C11: in every reachable state 0 <= cursor_position <= commit_message.len(),
\* whatever keys were pressed in the commit message editor.
C11_CursorInRange ==
    0 <= cursor_position /\ cursor_position <= Len(commit_message)

\* Right has moved the cursor to the end of a draft of one two-byte character
C11_Witness ==
    /\ Handled(Right)
    /\ commit_message = << "C3", "A9" >>
    /\ cursor_position = 2

-----------------------------------------------------------------------------
(* C12 *)

\* C12: at most one notification is held; a notification set at time T is
\* still held (or has been replaced by a newer one) at every time up to
\* T + 2.9 s, and none set at T is held at any time after T + 3.1 s.
C12_NotificationTiming ==
    /\ [][ ( notification /= None /\ now' - notification_time <= ExpiryTicks - 1 )
            => \/ notification' = notification /\ notification_time' = notification_time
               \/ notification' /= None /\ notification_time' = now' ]_vars
    /\ [] ( Len(notification) <= 1 )
    /\ [] ( notification /= None => now - notification_time <= ExpiryTicks + 1 )

-----------------------------------------------------------------------------
(* C13 *)

\* C13: on a list of n > 0 files Down and 'j' set selected_file to
\* (selected_file + 1) mod n, Up and 'k' to (selected_file - 1) mod n; on an
\* empty list they leave the selection alone; neither changes the file list
\* or the mode.
C13_NavigationWraps ==
    [][ /\ ( Handles("FileList", Down) \/ Handles("FileList", Char("j")) )
           => /\ files' = files
              /\ mode' = mode
              /\ IF files /= << >>
                 THEN selected_file' = (selected_file + 1) % Len(files)
                 ELSE selected_file' = selected_file /\ list_selected' = list_selected
        /\ ( Handles("FileList", Up) \/ Handles("FileList", Char("k")) )
           => /\ files' = files
              /\ mode' = mode
              /\ IF files /= << >>
                 THEN selected_file' = (selected_file + Len(files) - 1) % Len(files)
                 ELSE selected_file' = selected_file /\ list_selected' = list_selected
      ]_vars

\* Up from index 0 of two files has selected the last one
C13_Witness ==
    /\ Handled(Up)
    /\ selection_before = Some([selected_file |-> 0, len |-> 2])
    /\ selected_file = 1
    /\ Len(files) = 2

-----------------------------------------------------------------------------
(* C14 *)

\* C14: Tab changes nothing unless the draft is empty; on an empty draft it
\* advances selected_prefix by one modulo the number of catalog entries,
\* makes the draft that entry and puts the cursor at its end.  As
\* selected_prefix starts at the first entry and nothing else changes it,
\* as many effective cycles as there are entries lead back to the first.
C14_CyclePrefix ==
    /\ [] ( selected_prefix \in 0..(Len(commit_prefixes) - 1) )
    /\ [][ selected_prefix' /= selected_prefix
            => Handles("CommitMessage", Tab) /\ commit_message = << >> ]_vars
    /\ [][ Handles("CommitMessage", Tab)
            => IF commit_message = << >>
               THEN /\ selected_prefix' = (selected_prefix + 1) % Len(commit_prefixes)
                    /\ commit_message' = commit_prefixes[selected_prefix' + 1]
                    /\ cursor_position' = Len(commit_prefixes[selected_prefix' + 1])
               ELSE UNCHANGED << mode, files, selected_file, list_selected,
                                 commit_message, cursor_position, selected_prefix,
                                 git_status, diff_content, notification,
                                 should_quit >> ]_vars

\* the cycle has come round: Tab has inserted the first catalog entry
C14_Witness ==
    /\ Handled(Tab)
    /\ selected_prefix = 0
    /\ commit_message = << "f", "e", "a", "t", ":", " " >>
    /\ cursor_position = 6

-----------------------------------------------------------------------------
(* C15 *)

\* the status the claim gives the code pair (x, y), rule by rule
Classified(x, y, status) ==
    /\ x = "A" => status = "Added"
    /\ x = "M" => status = "Staged"
    /\ x = "D" => status = "Deleted"
    /\ x = "R" => status = "Renamed"
    /\ x \notin {"A", "M", "D", "R"} =>
          IF x = "?" /\ y = "?" THEN status = "Untracked"
          ELSE /\ y = "M" => status = "Modified"
               /\ y = "D" => status = "Deleted"
               /\ y \notin {"M", "D"} => status = "Modified"

HasPath(line) == Len(line) >= 3

\* C15: after a synchronization whose status query succeeded, files holds
\* one entry per line of at least 3 characters, in the order of the lines;
\* its path is the line from the fourth character on, its status follows
\* from the code pair by the priority order of the claim, and staged holds
\* exactly when the index code is neither ' ' nor '?'; hence no Untracked
\* entry is staged.
C15_Classification ==
    ( /\ Len(calls) >= 3
      /\ calls[Len(calls)].args = StatusArgs
      /\ calls[Len(calls)].out.ran
      /\ calls[Len(calls)].out.success )
    => LET ls == SelectSeq(Lines(calls[Len(calls)].out.stdout), HasPath)
       IN  /\ Len(files) = Len(ls)
           /\ \A i \in 1..Len(ls) :
                 /\ files[i].path = SubSeq(ls[i], 4, Len(ls[i]))
                 /\ Classified(ls[i][1], ls[i][2], files[i].status)
                 /\ files[i].staged <=> ls[i][1] \notin {" ", "?"}
           /\ \A i \in 1..Len(files) :
                 files[i].status = "Untracked" => ~files[i].staged

\* a line too short was dropped and the untracked path after it was kept
C15_Witness ==
    /\ pc = "draw"
    /\ Len(calls) = 3
    /\ calls[3].out = ExitOk(<< "M", "\n", "?", "?", " ", "a", "\n" >>)
    /\ files = << [path |-> << "a" >>, status |-> "Untracked", staged |-> FALSE] >>

-----------------------------------------------------------------------------
(* C16 *)

\* C16: after a synchronization current_branch is the trimmed stdout of the
\* branch query if that succeeded with text that is not blank, and
\* "unknown" otherwise; it is never empty.
C16_BranchSentinel ==
    ( /\ Len(calls) >= 3
      /\ calls[Len(calls) - 2].args = BranchArgs
      /\ calls[Len(calls)].args = StatusArgs )
    => LET b == calls[Len(calls) - 2].out
       IN  /\ git_status.current_branch =
                 ( IF b.ran /\ b.success /\ ~IsBlank(b.stdout)
                   THEN Stripped(b.stdout) ELSE << "unknown" >> )
           /\ git_status.current_branch /= << >>

-----------------------------------------------------------------------------
(* C17 *)

\* the number a short sequence of digits writes
RECURSIVE DecimalValue(_)
DecimalValue(s) ==
    IF s = << >> THEN 0
    ELSE 10 * DecimalValue(SubSeq(s, 1, Len(s) - 1)) + DigitValue(s[Len(s)])

\* the field is a count: digits only
IsCount(f) == f /= << >> /\ \A i \in 1..Len(f) : IsDigit(f[i])

\* the field is a count with a sign before it
IsSignedCount(f) == f /= << >> /\ Head(f) \in {"+", "-"} /\ IsCount(Tail(f))

\* v is what the claim allows for the field f: the count if f is one of
\* at most 9 digits, any non-negative value for a longer count (it may not
\* fit the integer type) and for a count with a sign, and 0 for every
\* other text
CountFor(f, v) ==
    IF IsCount(f) THEN (IF Len(f) <= 9 THEN v = DecimalValue(f) ELSE v >= 0)
    ELSE IF IsSignedCount(f) THEN v >= 0
    ELSE v = 0

\* C17: after a synchronization ahead and behind are non-negative; both
\* are 0 if the ahead/behind query failed or its line has no tab; if the
\* line has one tab, each is the count on its side of the tab, or 0 if
\* that side is no count, whatever the other side is.
C17_AheadBehind ==
    ( /\ Len(calls) >= 3
      /\ calls[Len(calls) - 1].args = CountArgs
      /\ calls[Len(calls)].args = StatusArgs )
    => LET c    == calls[Len(calls) - 1].out
           line == Stripped(c.stdout)
           tabs == { i \in 1..Len(line) : line[i] = "\t" }
       IN  /\ git_status.ahead >= 0
           /\ git_status.behind >= 0
           /\ ( ~(c.ran /\ c.success) \/ tabs = {} )
                 => git_status.ahead = 0 /\ git_status.behind = 0
           /\ ( c.ran /\ c.success /\ Cardinality(tabs) = 1 )
                 => LET t == CHOOSE i \in tabs : TRUE
                    IN  /\ CountFor(SubSeq(line, 1, t - 1), git_status.ahead)
                        /\ CountFor(SubSeq(line, t + 1, Len(line)), git_status.behind)

-----------------------------------------------------------------------------
(* C18 *)

\* C18: ' ' in FileList on a non-empty list makes exactly one mutating git
\* call, `reset HEAD path` if the selected entry is staged and `add path`
\* otherwise, then the three queries of a resynchronization whose status
\* answer becomes the file list, whatever the call answered; it sets no
\* notification and leaves the mode.  On an empty list it makes no call and
\* changes nothing.
C18_ToggleStage ==
    [][ Handles("FileList", Char(" "))
        => IF files /= << >>
           THEN /\ Len(calls') = 4
                /\ calls'[1].args =
                      ( IF files[selected_file + 1].staged
                        THEN << "reset", "HEAD", files[selected_file + 1].path >>
                        ELSE << "add", files[selected_file + 1].path >> )
                /\ ResyncAt(calls', 1)
                /\ files' = ParseStatus(calls'[4].out)
                /\ notification' = notification
                /\ mode' = mode
           ELSE /\ calls' = << >>
                /\ UNCHANGED << mode, files, selected_file, list_selected,
                                commit_message, cursor_position, selected_prefix,
                                git_status, diff_content, notification,
                                should_quit >> ]_vars

\* unstaging the staged file failed and the list was read again
C18_Witness ==
    /\ Handled(Char(" "))
    /\ Len(calls) = 4
    /\ calls[1] = Call(<< "reset", "HEAD", << "a" >> >>, ExitFail(ErrText))
    /\ notification = None
    /\ mode = "FileList"

-----------------------------------------------------------------------------
(* C19 *)

\* C19: 'd' in FileList on a non-empty list makes one git call, `diff
\* --staged path` if the selected entry is staged and `diff path` otherwise;
\* if git succeeds its stdout becomes diff_content and the mode DiffView,
\* otherwise mode, diff_content and notification stay as they were; on an
\* empty list no call is made and nothing changes.
C19_RequestDiff ==
    [][ Handles("FileList", Char("d"))
        => IF files /= << >>
           THEN /\ Len(calls') = 1
                /\ calls'[1].args =
                      ( IF files[selected_file + 1].staged
                        THEN << "diff", "--staged", files[selected_file + 1].path >>
                        ELSE << "diff", files[selected_file + 1].path >> )
                /\ IF calls'[1].out.ran /\ calls'[1].out.success
                   THEN /\ diff_content' = calls'[1].out.stdout
                        /\ mode' = "DiffView"
                        /\ notification' = notification
                   ELSE /\ mode' = "FileList"
                        /\ diff_content' = diff_content
                        /\ notification' = notification
           ELSE /\ calls' = << >>
                /\ UNCHANGED << mode, files, selected_file, list_selected,
                                commit_message, cursor_position, selected_prefix,
                                git_status, diff_content, notification,
                                should_quit >> ]_vars

\* the diff of the untracked second file could not be produced, after an
\* earlier diff had been shown
C19_Witness ==
    /\ Handled(Char("d"))
    /\ calls = << Call(<< "diff", << "b" >> >>, ExitFail(ErrText)) >>
    /\ mode = "FileList"
    /\ diff_content = DiffText

-----------------------------------------------------------------------------
(* C20 *)

\* C20: should_quit changes only by 'q' read in FileList, which sets it, and
\* it is never cleared; 'q' in DiffView or Help returns to FileList and 'q'
\* in CommitMessage is inserted at the cursor, neither touching the flag.
\* Once the flag is set the loop only finishes the iteration that read 'q'
\* (no git call), renders once and exits: no other key is read, no git call
\* is made, and nothing happens after the exit.
C20_QuitFlag ==
    /\ [][ should_quit' /= should_quit
            => Handles("FileList", Char("q")) /\ should_quit' ]_vars
    /\ [][ Handles("FileList", Char("q")) => should_quit' ]_vars
    /\ [][ ( Handles("DiffView", Char("q")) \/ Handles("Help", Char("q")) )
            => mode' = "FileList" /\ should_quit' = should_quit ]_vars
    /\ [][ Handles("CommitMessage", Char("q"))
            => /\ commit_message' =
                     SubSeq(commit_message, 1, cursor_position) \o << "q" >>
                     \o SubSeq(commit_message, cursor_position + 1, Len(commit_message))
               /\ mode' = "CommitMessage"
               /\ should_quit' = should_quit ]_vars
    /\ [] ( should_quit =>
              /\ pc \in {"expire", "draw", "exited"}
              /\ calls = << >>
              /\ key = IF pc = "expire" THEN Some(Char("q")) ELSE None )
    /\ [][ should_quit /\ pc = "draw" => pc' = "exited" ]_vars
    /\ [][ pc /= "exited" ]_vars

\* the loop has exited, after 'q' had been typed twice into the draft
C20_Witness ==
    /\ pc = "exited"
    /\ should_quit
    /\ commit_message = << "q", "q" >>

-----------------------------------------------------------------------------
(* C21 *)

\* C21: in every state of the loop, mode DiffView implies that files is not
\* empty and mode CommitMessage implies that some entry of files is staged;
\* and no step that stays in a secondary mode changes files.
C21_ModeImpliesFiles ==
    /\ [] ( mode = "DiffView" => files /= << >> )
    /\ [] ( mode = "CommitMessage" => \E i \in 1..Len(files) : files[i].staged )
    /\ [][ ( mode \in Secondary /\ mode' = mode ) => files' = files ]_vars

\* the editor was opened on a list whose second entry is the staged one
C21_Witness ==
    /\ Handled(Char("c"))
    /\ mode = "CommitMessage"
    /\ Len(files) = 2
    /\ ~files[1].staged
    /\ files[2].staged

-----------------------------------------------------------------------------
(* C22 *)

\* C22: the cursor always lies on a character boundary of the message, so
\* no insert, backspace or delete aborts the program; and each inserted
\* character moves the cursor by one.
C22_CursorOnCharBoundary ==
    /\ [] ( pc /= "panicked" )
    /\ [] ( cursor_position = 0
            \/ cursor_position = Len(commit_message)
            \/ ( cursor_position < Len(commit_message)
                 /\ commit_message[cursor_position + 1] /= "A9" ) )
    /\ [][ ( \E c \in ComposeChars : Handles("CommitMessage", Char(c)) )
            => cursor_position' = cursor_position + 1 ]_vars

=============================================================================
